---- MODULE Spec2Model ----
(***************************************************************************)
(* Model of kafka_utils/util/monitoring.py (offset reconciliation, the     *)
(* metadata refresh and the offsets-and-watermarks assembly) and of the    *)
(* under-replication evaluation exercised by                               *)
(* tests/kafka_check/test_under_replicated.py.                             *)
(*                                                                         *)
(* A Python dict is a TLA+ function whose DOMAIN is the dict's key set.    *)
(* A Python list is a sequence.  An exception that leaves an entry point   *)
(* is recorded in the variable outcome.                                    *)
(***************************************************************************)
EXTENDS Integers, Sequences, FiniteSets, TLC

VARIABLES
    \* ---- one call of an entry point of monitoring.py
    entry,            \* the entry point that was called
    pc,               \* position inside the call
    topics,           \* argument: list of topics
    raise_on_error,   \* argument
    offset_storage,   \* argument
    cluster_topics,   \* the topics that exist on the cluster (kafka_client.topic_partitions)
    topic_regex,      \* argument of get_watermark_for_regex: the names the regex matches
    loadLog,          \* outcomes of the calls of kafka_client.load_metadata_for_topics
    fetchLog,         \* the calls of get_current_consumer_offsets, in order
    wmLog,            \* the calls of get_topics_watermarks, in order
    zk_offsets,       \* local of _get_current_offsets_dual
    kafka_offsets,    \* local of _get_current_offsets_dual
    group_offsets,    \* the value get_current_offsets returned
    watermarks,       \* the value get_topics_watermarks returned
    result,           \* the value get_consumer_offsets_metadata returned
    outcome,          \* running, returned, or the exception raised
    \* ---- one call of merge_partition_offsets / merge_offsets_metadata
    m_phase,
    m_sources,        \* *partition_offsets
    m_output,         \* the dict merge_partition_offsets returned
    mm_topics,        \* topics argument of merge_offsets_metadata
    mm_responses,     \* *offsets_responses
    mm_result,        \* the dict merge_offsets_metadata returned
    \* ---- one call of _process_topic_partition_metadata
    u_phase,
    u_metadata,       \* (topic, partition) -> [replicas, isr]
    u_min_isr,        \* the replication threshold
    u_result          \* broker id -> list of (topic, partition)

callVars == <<entry, pc, topics, raise_on_error, offset_storage, cluster_topics,
              topic_regex, loadLog, fetchLog, wmLog, zk_offsets, kafka_offsets,
              group_offsets, watermarks, result, outcome>>
mergeVars == <<m_phase, m_sources, m_output, mm_topics, mm_responses, mm_result>>
urVars == <<u_phase, u_metadata, u_min_isr, u_result>>
vars == <<callVars, mergeVars, urVars>>

(***************************************************************************)
(* Bounds of the model.                                                    *)
(***************************************************************************)
MaxOffset == 1
MaxSources == 3
MaxTopicListLen == 2
MaxResponses == 2
MaxMinIsr == 3

Topics == {"t1", "t2"}
TopicPartitions(t) == IF t = "t1" THEN {0, 1} ELSE {0}
AllPartitions == UNION {TopicPartitions(t) : t \in Topics}

\* Offsets a consumer group can have committed.
CommittedOffsets == 0 .. MaxOffset
\* Offsets a dict handed to merge_partition_offsets can carry: any int.
SourceOffsets == {0 - 1, 0, 1}

EmptyDict == [k \in {} |-> 0]

\* All dicts with keys among K and values among V.
Dicts(K, V) == UNION {[D -> V] : D \in SUBSET K}

\* All lists over S of length at most n.
Lists(S, n) == UNION {[1 .. k -> S] : k \in 0 .. n}

Max(a, b) == IF a >= b THEN a ELSE b

\* dict.get(key, default)
Get(d, key, default) == IF key \in DOMAIN d THEN d[key] ELSE default

(***************************************************************************)
(* merge_partition_offsets                                                 *)
(***************************************************************************)
\* A faulty merge step: the later source overwrites the earlier offset.
MergeStepLastWins(output, partition_offset) ==
    [partition \in DOMAIN output \cup DOMAIN partition_offset |->
        IF partition \in DOMAIN partition_offset
        THEN partition_offset[partition]
        ELSE output[partition]]

\* A faulty merge step: the offset seen first is kept (setdefault).
MergeStepKeepFirst(output, partition_offset) ==
    [partition \in DOMAIN output \cup DOMAIN partition_offset |->
        IF partition \in DOMAIN output
        THEN output[partition]
        ELSE Max(0, partition_offset[partition])]

\* A faulty merge step: the lower offset is kept.
MergeStepMin(output, partition_offset) ==
    [partition \in DOMAIN output \cup DOMAIN partition_offset |->
        IF partition \in DOMAIN partition_offset
        THEN IF partition \in DOMAIN output
             THEN IF output[partition] <= partition_offset[partition]
                  THEN output[partition] ELSE partition_offset[partition]
             ELSE partition_offset[partition]
        ELSE output[partition]]

\* The inner loop: every (partition, offset) of one source is folded into
\* output.  The keys of a dict are distinct, so each partition is updated
\* once and the order of the items does not matter.
MergeStep(output, partition_offset) ==
    [partition \in DOMAIN output \cup DOMAIN partition_offset |->
        IF partition \in DOMAIN partition_offset
        THEN Max(Get(output, partition, 0), partition_offset[partition])
        ELSE output[partition]]

RECURSIVE MergeFold(_, _)
\* The outer loop over *partition_offsets, first source first.
MergeFold(output, partition_offsets) ==
    IF partition_offsets = << >>
    THEN output
    ELSE MergeFold(MergeStep(output, Head(partition_offsets)),
                   Tail(partition_offsets))

merge_partition_offsets(partition_offsets) ==
    MergeFold(EmptyDict, partition_offsets)

(***************************************************************************)
(* merge_offsets_metadata                                                  *)
(***************************************************************************)
\* [response[topic] for response in offsets_responses if topic in response]
ResponsesWith(topic, offsets_responses) ==
    LET RECURSIVE Pick(_)
        Pick(rs) == IF rs = << >> THEN << >>
                    ELSE IF topic \in DOMAIN Head(rs)
                         THEN <<Head(rs)[topic]>> \o Pick(Tail(rs))
                         ELSE Pick(Tail(rs))
    IN Pick(offsets_responses)

Range(s) == {s[i] : i \in DOMAIN s}

\* A faulty variant: only the topics some response holds become keys.
MergeMetadataSeenTopicsOnly(topic_list, offsets_responses) ==
    [topic \in {t \in Range(topic_list) :
                    \E i \in DOMAIN offsets_responses : t \in DOMAIN offsets_responses[i]} |->
        merge_partition_offsets(ResponsesWith(topic, offsets_responses))]

\* result[topic] is assigned once per element of topics; a repeated topic
\* is assigned the same value again.
merge_offsets_metadata(topic_list, offsets_responses) ==
    [topic \in Range(topic_list) |->
        merge_partition_offsets(ResponsesWith(topic, offsets_responses))]

(***************************************************************************)
(* Default values of the variables a specification does not use.          *)
(***************************************************************************)
Running == [kind |-> "running", exc |-> "", arg |-> ""]
Returned == [kind |-> "returned", exc |-> "", arg |-> ""]
Raised(exc, arg) == [kind |-> "raised", exc |-> exc, arg |-> arg]

CallIdle ==
    /\ entry = "none" /\ pc = "idle" /\ topics = << >>
    /\ raise_on_error = FALSE /\ offset_storage = "" /\ cluster_topics = {}
    /\ topic_regex = {} /\ loadLog = << >> /\ fetchLog = << >> /\ wmLog = << >>
    /\ zk_offsets = EmptyDict /\ kafka_offsets = EmptyDict
    /\ group_offsets = EmptyDict /\ watermarks = EmptyDict
    /\ result = EmptyDict /\ outcome = Running

MergeIdle ==
    /\ m_phase = "idle" /\ m_sources = << >> /\ m_output = EmptyDict
    /\ mm_topics = << >> /\ mm_responses = << >> /\ mm_result = EmptyDict

UrIdle ==
    /\ u_phase = "idle" /\ u_metadata = EmptyDict /\ u_min_isr = 0
    /\ u_result = EmptyDict

(***************************************************************************)
(* The collaborators of monitoring.py.                                     *)
(***************************************************************************)
Reply(exc, value) == [exc |-> exc, value |-> value]

\* The dicts a fetch can return for the topics asked for: the topics that
\* do not exist on the cluster are absent.
TopicDicts(topic_set, V) ==
    UNION {{f \in [D -> UNION {Dicts(TopicPartitions(t), V) : t \in D}] :
                \A t \in D : DOMAIN f[t] \subseteq TopicPartitions(t)} :
           D \in SUBSET topic_set}

MissingTopics(topic_list) == Range(topic_list) \ cluster_topics

\* kafka_client.load_metadata_for_topics(): succeeds, fails with the
\* transient KafkaUnavailableError, or fails otherwise.
LoadOutcomes == {"ok", "KafkaUnavailableError", "KafkaTimeoutError"}

\* get_current_consumer_offsets(kafka_client, group, topics, raise_on_error,
\* offset_storage): a missing topic raises when raise_on_error is set and is
\* left out of the returned dict otherwise; the request itself may fail.
FetchReplies(topic_list, raise) ==
    {Reply("GroupCoordinatorNotAvailableError", EmptyDict),
     Reply("FailedPayloadsError", EmptyDict)}
    \cup
    (IF raise /\ MissingTopics(topic_list) # {}
     THEN {Reply("UnknownTopicOrPartitionError", EmptyDict)}
     ELSE {Reply("", d) :
            d \in TopicDicts(Range(topic_list) \cap cluster_topics, CommittedOffsets)})

\* The (highmark, lowmark) pairs a partition can have.
Marks == {[highmark |-> 5, lowmark |-> 0], [highmark |-> 7, lowmark |-> 3]}

\* get_topics_watermarks(kafka_client, topics, raise_on_error)
WatermarkReplies(topic_list, raise) ==
    {Reply("FailedPayloadsError", EmptyDict)}
    \cup
    (IF raise /\ MissingTopics(topic_list) # {}
     THEN {Reply("UnknownTopicOrPartitionError", EmptyDict)}
     ELSE {Reply("", d) :
            d \in TopicDicts(Range(topic_list) \cap cluster_topics, Marks)})

\* raise_on_error of get_topics_watermarks when the caller passes none.
WatermarkDefaultRaise == TRUE

\* A list holding the elements of a set once each, in the dict's order.
RECURSIVE ListOf(_)
ListOf(S) ==
    IF S = {} THEN << >>
    ELSE LET x == CHOOSE y \in S : \A z \in S : y <= z
         IN <<x>> \o ListOf(S \ {x})

RECURSIVE TopicListOf(_)
TopicListOf(S) ==
    IF S = {} THEN << >>
    ELSE LET x == CHOOSE y \in S : TRUE
         IN <<x>> \o TopicListOf(S \ {x})

(***************************************************************************)
(* The entry points of monitoring.py.                                      *)
(***************************************************************************)
StorageModes == {"zookeeper", "kafka", "dual", "bogus"}

RefreshingEntries ==
    {"get_consumer_offsets_metadata", "get_watermark_for_regex", "get_watermark_for_topic"}

Init ==
    /\ MergeIdle /\ UrIdle
    /\ cluster_topics \in SUBSET Topics
    /\ \/ /\ entry \in {"get_consumer_offsets_metadata", "get_current_offsets"}
          /\ topics \in Lists(Topics, MaxTopicListLen)
          /\ raise_on_error \in BOOLEAN
          /\ offset_storage \in StorageModes
          /\ topic_regex = {}
       \/ /\ entry = "get_watermark_for_regex"
          /\ topics = << >>
          /\ raise_on_error = WatermarkDefaultRaise
          /\ offset_storage = ""
          /\ topic_regex \in SUBSET Topics
       \/ /\ entry = "get_watermark_for_topic"
          /\ topics \in {<<t>> : t \in Topics}
          /\ raise_on_error = WatermarkDefaultRaise
          /\ offset_storage = ""
          /\ topic_regex = {}
    /\ pc = IF entry = "get_current_offsets" THEN "offsets" ELSE "start"
    /\ loadLog = << >> /\ fetchLog = << >> /\ wmLog = << >>
    /\ zk_offsets = EmptyDict /\ kafka_offsets = EmptyDict
    /\ group_offsets = EmptyDict /\ watermarks = EmptyDict
    /\ result = EmptyDict /\ outcome = Running

\* Where an entry point goes on once the metadata is refreshed.
AfterRefresh ==
    CASE entry = "get_consumer_offsets_metadata" -> "offsets"
      [] entry = "get_watermark_for_regex" -> "select"
      [] OTHER -> "watermarks"

\* A faulty handler: every failure of the refresh is retried.
RetriedAlways(exc) == TRUE

\* except KafkaUnavailableError
Retried(exc) == exc = "KafkaUnavailableError"

\* try: kafka_client.load_metadata_for_topics()
LoadMetadata ==
    /\ pc = "start"
    /\ entry \in RefreshingEntries
    /\ \E r \in LoadOutcomes :
        /\ loadLog' = Append(loadLog, r)
        /\ IF r = "ok"
           THEN pc' = AfterRefresh /\ outcome' = outcome
           ELSE IF Retried(r)
                THEN pc' = "retry" /\ outcome' = outcome
                ELSE pc' = "done" /\ outcome' = Raised(r, "")
    /\ UNCHANGED <<entry, topics, raise_on_error, offset_storage, cluster_topics,
                   topic_regex, fetchLog, wmLog, zk_offsets, kafka_offsets,
                   group_offsets, watermarks, result, mergeVars, urVars>>

\* except KafkaUnavailableError: kafka_client.load_metadata_for_topics()
LoadMetadataRetry ==
    /\ pc = "retry"
    /\ \E r \in LoadOutcomes :
        /\ loadLog' = Append(loadLog, r)
        /\ IF r = "ok"
           THEN pc' = AfterRefresh /\ outcome' = outcome
           ELSE pc' = "done" /\ outcome' = Raised(r, "")
    /\ UNCHANGED <<entry, topics, raise_on_error, offset_storage, cluster_topics,
                   topic_regex, fetchLog, wmLog, zk_offsets, kafka_offsets,
                   group_offsets, watermarks, result, mergeVars, urVars>>

\* get_watermark_for_regex: the topics of the directory the regex matches.
SelectTopics ==
    /\ pc = "select"
    /\ topics' = TopicListOf(cluster_topics \cap topic_regex)
    /\ pc' = "watermarks"
    /\ UNCHANGED <<entry, raise_on_error, offset_storage, cluster_topics,
                   topic_regex, loadLog, fetchLog, wmLog, zk_offsets, kafka_offsets,
                   group_offsets, watermarks, result, outcome, mergeVars, urVars>>

\* The position after get_current_offsets returned.
AfterOffsets == IF entry = "get_current_offsets" THEN "done" ELSE "watermarks"

OutcomeAfterOffsets == IF entry = "get_current_offsets" THEN Returned ELSE outcome

FetchCall(storage, raise, reply) ==
    [offset_storage |-> storage, raise_on_error |-> raise, exc |-> reply.exc]

\* A faulty dispatch: an unknown storage mode is served from kafka.
KnownStorageAny(storage) == TRUE

\* offset_storage in ['zookeeper', 'kafka'], or offset_storage == 'dual'
KnownStorage(storage) == storage \in {"zookeeper", "kafka", "dual"}

\* get_current_offsets, else branch: raise InvalidOffsetStorageError(offset_storage)
GetCurrentOffsetsInvalid ==
    /\ pc = "offsets"
    /\ ~KnownStorage(offset_storage)
    /\ outcome' = Raised("InvalidOffsetStorageError", offset_storage)
    /\ pc' = "done"
    /\ UNCHANGED <<entry, topics, raise_on_error, offset_storage, cluster_topics,
                   topic_regex, loadLog, fetchLog, wmLog, zk_offsets, kafka_offsets,
                   group_offsets, watermarks, result, mergeVars, urVars>>

\* get_current_offsets, offset_storage in ['zookeeper', 'kafka']: the result
\* of get_current_consumer_offsets is returned, its exception propagates.
GetCurrentOffsetsSingle ==
    /\ pc = "offsets"
    /\ KnownStorage(offset_storage) /\ offset_storage # "dual"
    /\ \E reply \in FetchReplies(topics, raise_on_error) :
        /\ fetchLog' = Append(fetchLog, FetchCall(offset_storage, raise_on_error, reply))
        /\ IF reply.exc = ""
           THEN /\ group_offsets' = reply.value
                /\ pc' = AfterOffsets
                /\ outcome' = OutcomeAfterOffsets
           ELSE /\ group_offsets' = group_offsets
                /\ pc' = "done"
                /\ outcome' = Raised(reply.exc, "")
    /\ UNCHANGED <<entry, topics, raise_on_error, offset_storage, cluster_topics,
                   topic_regex, loadLog, wmLog, zk_offsets, kafka_offsets,
                   watermarks, result, mergeVars, urVars>>

\* A faulty variant: the caller's flag is handed on to the backends.
DualRaiseOnErrorFromCaller(raise) == raise

\* The raise_on_error _get_current_offsets_dual hands to both fetches: False.
DualRaiseOnError(raise) == FALSE

\* _get_current_offsets_dual: zk_offsets = get_current_consumer_offsets(...,
\* False, 'zookeeper')
DualFetchZookeeper ==
    /\ pc = "offsets"
    /\ offset_storage = "dual"
    /\ \E reply \in FetchReplies(topics, DualRaiseOnError(raise_on_error)) :
        /\ fetchLog' = Append(fetchLog,
                FetchCall("zookeeper", DualRaiseOnError(raise_on_error), reply))
        /\ IF reply.exc = ""
           THEN /\ zk_offsets' = reply.value
                /\ pc' = "dual_kafka"
                /\ outcome' = outcome
           ELSE /\ zk_offsets' = zk_offsets
                /\ pc' = "done"
                /\ outcome' = Raised(reply.exc, "")
    /\ UNCHANGED <<entry, topics, raise_on_error, offset_storage, cluster_topics,
                   topic_regex, loadLog, wmLog, kafka_offsets, group_offsets,
                   watermarks, result, mergeVars, urVars>>

\* A faulty variant: every failure of the kafka fetch is absorbed.
KafkaAbsorbsAll(exc) == TRUE

\* except GroupCoordinatorNotAvailableError: kafka_offsets = {}
KafkaAbsorbed(exc) == exc = "GroupCoordinatorNotAvailableError"

\* _get_current_offsets_dual: the kafka fetch inside the try, then
\* merge_offsets_metadata(topics, zk_offsets, kafka_offsets).
DualFetchKafkaAndMerge ==
    /\ pc = "dual_kafka"
    /\ \E reply \in FetchReplies(topics, DualRaiseOnError(raise_on_error)) :
        /\ fetchLog' = Append(fetchLog,
                FetchCall("kafka", DualRaiseOnError(raise_on_error), reply))
        /\ IF reply.exc = "" \/ KafkaAbsorbed(reply.exc)
           THEN /\ kafka_offsets' = (IF reply.exc = "" THEN reply.value ELSE EmptyDict)
                /\ group_offsets' = merge_offsets_metadata(topics, <<zk_offsets, kafka_offsets'>>)
                /\ pc' = "dual_merged"
                /\ outcome' = outcome
           ELSE /\ kafka_offsets' = kafka_offsets
                /\ group_offsets' = group_offsets
                /\ pc' = "done"
                /\ outcome' = Raised(reply.exc, "")
    /\ UNCHANGED <<entry, topics, raise_on_error, offset_storage, cluster_topics,
                   topic_regex, loadLog, wmLog, zk_offsets, watermarks, result,
                   mergeVars, urVars>>

\* _get_current_offsets_dual returns: its locals go out of scope.
DualReturn ==
    /\ pc = "dual_merged"
    /\ zk_offsets' = EmptyDict
    /\ kafka_offsets' = EmptyDict
    /\ pc' = AfterOffsets
    /\ outcome' = OutcomeAfterOffsets
    /\ UNCHANGED <<entry, topics, raise_on_error, offset_storage, cluster_topics,
                   topic_regex, loadLog, fetchLog, wmLog, group_offsets,
                   watermarks, result, mergeVars, urVars>>

\* watermarks = get_topics_watermarks(kafka_client, topics[, raise_on_error]);
\* the two watermark entry points return it.
FetchWatermarks ==
    /\ pc = "watermarks"
    /\ \E reply \in WatermarkReplies(topics, raise_on_error) :
        /\ wmLog' = Append(wmLog, [raise_on_error |-> raise_on_error, exc |-> reply.exc])
        /\ IF reply.exc = ""
           THEN /\ watermarks' = reply.value
                /\ IF entry = "get_consumer_offsets_metadata"
                   THEN pc' = "assemble" /\ outcome' = outcome
                   ELSE pc' = "done" /\ outcome' = Returned
           ELSE /\ watermarks' = watermarks
                /\ pc' = "done"
                /\ outcome' = Raised(reply.exc, "")
    /\ UNCHANGED <<entry, topics, raise_on_error, offset_storage, cluster_topics,
                   topic_regex, loadLog, fetchLog, zk_offsets, kafka_offsets,
                   group_offsets, result, mergeVars, urVars>>

ConsumerPartitionOffsets(topic, partition, current, highmark, lowmark) ==
    [topic |-> topic, partition |-> partition, current |-> current,
     highmark |-> highmark, lowmark |-> lowmark]

\* watermarks[topic][partition] raises KeyError
LookupFails(topic, partition) ==
    topic \notin DOMAIN watermarks \/ partition \notin DOMAIN watermarks[topic]

\* A faulty variant: the watermark is taken for the snapshot's current offset.
SnapshotsCurrentFromHighmark(topic) ==
    LET ps == ListOf(DOMAIN group_offsets[topic])
    IN [i \in 1 .. Len(ps) |->
          ConsumerPartitionOffsets(topic, ps[i], watermarks[topic][ps[i]].highmark,
              watermarks[topic][ps[i]].highmark, watermarks[topic][ps[i]].lowmark)]

\* The list comprehension of get_consumer_offsets_metadata for one topic.
Snapshots(topic) ==
    LET ps == ListOf(DOMAIN group_offsets[topic])
    IN [i \in 1 .. Len(ps) |->
          ConsumerPartitionOffsets(topic, ps[i], group_offsets[topic][ps[i]],
              watermarks[topic][ps[i]].highmark, watermarks[topic][ps[i]].lowmark)]

AnyLookupFails ==
    \E topic \in DOMAIN group_offsets : \E partition \in DOMAIN group_offsets[topic] :
        LookupFails(topic, partition)

\* The loop building result in get_consumer_offsets_metadata.
Assemble ==
    /\ pc = "assemble"
    /\ IF AnyLookupFails
       THEN /\ outcome' = Raised("KeyError", "")
            /\ result' = result
       ELSE /\ outcome' = Returned
            /\ result' = [topic \in DOMAIN group_offsets |-> Snapshots(topic)]
    /\ pc' = "done"
    /\ UNCHANGED <<entry, topics, raise_on_error, offset_storage, cluster_topics,
                   topic_regex, loadLog, fetchLog, wmLog, zk_offsets, kafka_offsets,
                   group_offsets, watermarks, mergeVars, urVars>>

Next ==
    \/ LoadMetadata
    \/ LoadMetadataRetry
    \/ SelectTopics
    \/ GetCurrentOffsetsInvalid
    \/ GetCurrentOffsetsSingle
    \/ DualFetchZookeeper
    \/ DualFetchKafkaAndMerge
    \/ DualReturn
    \/ FetchWatermarks
    \/ Assemble

Spec == Init /\ [][Next]_vars

(***************************************************************************)
(* A call of merge_partition_offsets on arbitrary sources.                 *)
(***************************************************************************)
SourceDicts == Dicts(AllPartitions, SourceOffsets)

InitPartitionMerge ==
    /\ CallIdle /\ UrIdle
    /\ m_phase = "args"
    /\ m_sources \in Lists(SourceDicts, MaxSources)
    /\ m_output = EmptyDict
    /\ mm_topics = << >> /\ mm_responses = << >> /\ mm_result = EmptyDict

CallMergePartitionOffsets ==
    /\ m_phase = "args"
    /\ m_output' = merge_partition_offsets(m_sources)
    /\ m_phase' = "returned"
    /\ UNCHANGED <<m_sources, mm_topics, mm_responses, mm_result, callVars, urVars>>

NextPartitionMerge == CallMergePartitionOffsets

SpecPartitionMerge == InitPartitionMerge /\ [][NextPartitionMerge]_vars

(***************************************************************************)
(* A call of merge_offsets_metadata on arbitrary topics and responses.     *)
(***************************************************************************)
\* The partition dicts the responses of this call are drawn from.
SamplePartitionDicts == {EmptyDict, [p \in {0} |-> 1], [p \in {0, 1} |-> 2 - p]}

ResponseDicts == Dicts(Topics, SamplePartitionDicts)

InitMetadataMerge ==
    /\ CallIdle /\ UrIdle
    /\ m_phase = "args"
    /\ m_sources = << >> /\ m_output = EmptyDict
    /\ mm_topics \in Lists(Topics, MaxTopicListLen)
    /\ mm_responses \in Lists(ResponseDicts, MaxResponses)
    /\ mm_result = EmptyDict

CallMergeOffsetsMetadata ==
    /\ m_phase = "args"
    /\ mm_result' = merge_offsets_metadata(mm_topics, mm_responses)
    /\ m_phase' = "returned"
    /\ UNCHANGED <<m_sources, m_output, mm_topics, mm_responses, callVars, urVars>>

NextMetadataMerge == CallMergeOffsetsMetadata

SpecMetadataMerge == InitMetadataMerge /\ [][NextMetadataMerge]_vars

(***************************************************************************)
(* _process_topic_partition_metadata                                       *)
(***************************************************************************)
Brokers == {13, 100, 666}

\* The replica state of one partition: the replicas in the order of the
\* metadata response, and the in-sync replicas among them.
ReplicaStates ==
    UNION {{[replicas |-> ListOf(R), isr |-> I] : I \in SUBSET R} :
           R \in SUBSET Brokers \ {{}}}

\* The (topic, partition) entries of a metadata response, as a list.
RECURSIVE EntriesOf(_, _)
EntriesOf(metadata, topic_list) ==
    IF topic_list = << >> THEN << >>
    ELSE LET t == Head(topic_list)
             ps == ListOf(DOMAIN metadata[t])
         IN [i \in 1 .. Len(ps) |-> <<t, ps[i]>>] \o EntriesOf(metadata, Tail(topic_list))

\* result[broker].append((topic, partition)) on a dict of lists
AppendTo(res, broker, pair) ==
    [b \in DOMAIN res \cup {broker} |->
        IF b = broker THEN Append(Get(res, b, << >>), pair) ELSE res[b]]

\* A faulty variant: the threshold is compared with the replica count.
UnderReplicatedByReplicaCount(state, min_isr) == Len(state.replicas) < min_isr

\* len(isr) < min_isr
UnderReplicated(state, min_isr) == Cardinality(state.isr) < min_isr

RECURSIVE ProcessReplicas(_, _, _, _)
\* for every broker of replicas that is not in isr
ProcessReplicas(res, state, replicas, pair) ==
    IF replicas = << >> THEN res
    ELSE ProcessReplicas(
            IF Head(replicas) \notin state.isr
            THEN AppendTo(res, Head(replicas), pair) ELSE res,
            state, Tail(replicas), pair)

RECURSIVE ProcessEntries(_, _, _, _)
\* for every (topic, partition) entry of the metadata
ProcessEntries(res, metadata, entries, min_isr) ==
    IF entries = << >> THEN res
    ELSE LET pair == Head(entries)
             state == metadata[pair[1]][pair[2]]
         IN ProcessEntries(
                IF UnderReplicated(state, min_isr)
                THEN ProcessReplicas(res, state, state.replicas, pair) ELSE res,
                metadata, Tail(entries), min_isr)

_process_topic_partition_metadata(metadata, min_isr) ==
    ProcessEntries(EmptyDict, metadata, EntriesOf(metadata, TopicListOf(DOMAIN metadata)), min_isr)

\* METADATA_RESPONSE of test__process_topic_partition_metadata
TestMetadataOneMissing ==
    [t \in {"topic0", "topic1"} |-> [p \in {0, 1} |->
        IF t = "topic0" THEN [replicas |-> <<13, 100>>, isr |-> {13, 100}]
        ELSE IF p = 0 THEN [replicas |-> <<300, 500, 666>>, isr |-> {500, 666}]
        ELSE [replicas |-> <<300, 500, 666>>, isr |-> {300, 500, 666}]]]

\* METADATA_RESPONSE of test__process_topic_partition_metadata_few_for_one_broker
TestMetadataFewForOneBroker ==
    [t \in {"topic0", "topic1"} |-> [p \in {0, 1} |->
        IF t = "topic0"
        THEN IF p = 0 THEN [replicas |-> <<13, 100>>, isr |-> {100}]
             ELSE [replicas |-> <<13, 100>>, isr |-> {13, 100}]
        ELSE IF p = 0 THEN [replicas |-> <<13, 500, 666>>, isr |-> {13, 500, 666}]
             ELSE [replicas |-> <<13, 500, 666>>, isr |-> {666}]]]

\* The assertions of the tests of _process_topic_partition_metadata, the
\* lists compared as sets as the tests do.
TestsOfProcessTopicPartitionMetadata ==
    LET AsSets(res) == [b \in DOMAIN res |-> Range(res[b])]
    IN /\ _process_topic_partition_metadata(EmptyDict, 10) = EmptyDict
       /\ _process_topic_partition_metadata(TestMetadataOneMissing, 2) = EmptyDict
       /\ _process_topic_partition_metadata(TestMetadataOneMissing, 3)
            = [b \in {300} |-> << <<"topic1", 0>> >>]
       /\ AsSets(_process_topic_partition_metadata(TestMetadataFewForOneBroker, 2))
            = [b \in {13, 500} |->
                 IF b = 13 THEN {<<"topic0", 0>>, <<"topic1", 1>>} ELSE {<<"topic1", 1>>}]

InitUnderReplicated ==
    /\ CallIdle /\ MergeIdle
    /\ u_phase = "args"
    /\ u_metadata \in TopicDicts(Topics, ReplicaStates)
    /\ u_min_isr \in 0 .. MaxMinIsr
    /\ u_result = EmptyDict

CallProcessTopicPartitionMetadata ==
    /\ u_phase = "args"
    /\ u_result' = _process_topic_partition_metadata(u_metadata, u_min_isr)
    /\ u_phase' = "returned"
    /\ UNCHANGED <<u_metadata, u_min_isr, callVars, mergeVars>>

NextUnderReplicated == CallProcessTopicPartitionMetadata

SpecUnderReplicated == InitUnderReplicated /\ [][NextUnderReplicated]_vars

\* C5: the result lists (topic, partition) under broker b exactly when the
\* partition has fewer in-sync replicas than the threshold and b is one of
\* its replicas but not in sync; a broker with no such pair is no key of the
\* result, so the result is empty for an empty batch and whenever every
\* partition has at least threshold in-sync replicas, whatever its replicas.
C5_BrokersMissingFromIsr ==
    u_phase = "returned" =>
        LET Flagged(b) ==
                {<<t, p>> \in Topics \X AllPartitions :
                    /\ t \in DOMAIN u_metadata /\ p \in DOMAIN u_metadata[t]
                    /\ Cardinality(u_metadata[t][p].isr) < u_min_isr
                    /\ b \in Range(u_metadata[t][p].replicas)
                    /\ b \notin u_metadata[t][p].isr}
        IN /\ DOMAIN u_result = {b \in Brokers : Flagged(b) # {}}
           /\ \A b \in DOMAIN u_result :
                /\ Range(u_result[b]) = Flagged(b)
                /\ Len(u_result[b]) = Cardinality(Flagged(b))
           /\ (\A t \in DOMAIN u_metadata : \A p \in DOMAIN u_metadata[t] :
                   Cardinality(u_metadata[t][p].isr) >= u_min_isr)
                => u_result = EmptyDict

\* C5 witness: one broker is listed for two partitions while a partition
\* with a replica out of sync but enough in-sync replicas is not listed.
C5_Witness ==
    /\ u_phase = "returned"
    /\ \E b \in DOMAIN u_result : Len(u_result[b]) = 2
    /\ \E t \in DOMAIN u_metadata : \E p \in DOMAIN u_metadata[t] :
          /\ Cardinality(u_metadata[t][p].isr) >= u_min_isr
          /\ Range(u_metadata[t][p].replicas) # u_metadata[t][p].isr
          /\ \A b \in DOMAIN u_result : <<t, p>> \notin Range(u_result[b])

(***************************************************************************)
(* Claims about the merge primitives.                                      *)
(***************************************************************************)
\* The offsets the sources carry for a partition.
SeenOffsets(sources, partition) ==
    {sources[i][partition] : i \in {j \in DOMAIN sources : partition \in DOMAIN sources[j]}}

SeenPartitions(sources) == UNION {DOMAIN sources[i] : i \in DOMAIN sources}

Greatest(S) == CHOOSE m \in S : \A x \in S : m >= x

\* C2 (as stated): the result at each partition equals the maximum offset
\* seen for that partition across all sources, whatever offsets the sources
\* carry.
C2_MaxOfAllSources ==
    m_phase = "returned" =>
        /\ DOMAIN m_output = SeenPartitions(m_sources)
        /\ \A p \in DOMAIN m_output : m_output[p] = Greatest(SeenOffsets(m_sources, p))

\* C2 (amended): the result holds exactly the partitions some source holds,
\* and its value at a partition is the maximum offset seen for it when that
\* maximum is at least 0, and 0 when every offset seen for it is negative.
C2_MaxOfSourcesAndZero ==
    m_phase = "returned" =>
        /\ DOMAIN m_output = SeenPartitions(m_sources)
        /\ \A p \in DOMAIN m_output :
            LET g == Greatest(SeenOffsets(m_sources, p))
            IN m_output[p] = (IF g >= 0 THEN g ELSE 0)

\* C2 witness: a merge returned where two sources disagree on a partition
\* and another partition carries only a negative offset.
C2_Witness ==
    /\ m_phase = "returned"
    /\ \E p \in DOMAIN m_output : Cardinality(SeenOffsets(m_sources, p)) >= 2
    /\ \E p \in DOMAIN m_output : \A x \in SeenOffsets(m_sources, p) : x < 0

IndexPermutations(n) == {f \in [1 .. n -> 1 .. n] : \A i, j \in 1 .. n : f[i] = f[j] => i = j}

PermsUpTo == [n \in 0 .. MaxSources |-> IndexPermutations(n)]

Permuted(s, f) == [i \in 1 .. Len(s) |-> s[f[i]]]

\* C3: merge_partition_offsets is commutative, associative and idempotent
\* under duplicate sources: every permutation of the sources gives the same
\* result, merging the merge of a prefix with the merge of the rest gives the
\* result of merging all sources at once (so merge(merge(a, b), c) =
\* merge(a, merge(b, c)) = merge(a, b, c)), and repeating a source changes
\* nothing (merge(a, a) = merge(a)).
C3_CommutativeAssociativeIdempotent ==
    m_phase = "returned" =>
        /\ \A f \in PermsUpTo[Len(m_sources)] :
              merge_partition_offsets(Permuted(m_sources, f)) = m_output
        /\ \A k \in 0 .. Len(m_sources) :
              /\ merge_partition_offsets(
                    <<merge_partition_offsets(SubSeq(m_sources, 1, k))>>
                    \o SubSeq(m_sources, k + 1, Len(m_sources))) = m_output
              /\ merge_partition_offsets(
                    SubSeq(m_sources, 1, k)
                    \o <<merge_partition_offsets(SubSeq(m_sources, k + 1, Len(m_sources)))>>)
                 = m_output
        /\ \A i \in DOMAIN m_sources :
              /\ merge_partition_offsets(m_sources \o <<m_sources[i]>>) = m_output
              /\ merge_partition_offsets(<<m_sources[i], m_sources[i]>>)
                 = merge_partition_offsets(<<m_sources[i]>>)

\* C3 witness: a merge of three sources returned in which the sources
\* disagree on a common partition, so the order could matter.
C3_Witness ==
    /\ m_phase = "returned"
    /\ Len(m_sources) = 3
    /\ \E p \in AllPartitions :
          /\ \A i \in 1 .. 3 : p \in DOMAIN m_sources[i]
          /\ m_sources[1][p] > m_sources[2][p]
          /\ m_sources[3][p] > m_sources[1][p]

\* C4: the key set of merge_offsets_metadata's result is exactly the set of
\* topics of the topic list; a topic of the list that no response holds maps
\* to the empty dict, and a topic a response holds that is not in the list is
\* no key of the result.
C4_KeysAreTheTopicList ==
    m_phase = "returned" =>
        /\ DOMAIN mm_result = Range(mm_topics)
        /\ \A t \in Range(mm_topics) :
              (\A i \in DOMAIN mm_responses : t \notin DOMAIN mm_responses[i])
                  => mm_result[t] = EmptyDict
        /\ \A i \in DOMAIN mm_responses : \A t \in DOMAIN mm_responses[i] :
              t \notin Range(mm_topics) => t \notin DOMAIN mm_result

\* C4 witness: a merge returned whose topic list holds a topic absent from
\* every response while a response holds a topic that is not in the list.
C4_Witness ==
    /\ m_phase = "returned"
    /\ \E t \in Range(mm_topics) :
          /\ \A i \in DOMAIN mm_responses : t \notin DOMAIN mm_responses[i]
          /\ t \in DOMAIN mm_result
    /\ \E i \in DOMAIN mm_responses : \E t \in DOMAIN mm_responses[i] :
          t \notin Range(mm_topics)

(***************************************************************************)
(* Claims about the entry points.                                          *)
(***************************************************************************)
OffsetEntries == {"get_consumer_offsets_metadata", "get_current_offsets"}

\* The partitions a response reports for a topic.
Reported(response, t) == IF t \in DOMAIN response THEN DOMAIN response[t] ELSE {}

\* C1: in dual mode, for every requested topic the merged dict holds exactly
\* the partitions some backend reported, and the merged offset of a partition
\* is the higher of the two backends' offsets, or the single reported offset:
\* it is never lower than the offset of either backend.
C1_DualTakesHigherOffset ==
    pc = "dual_merged" =>
        /\ DOMAIN group_offsets = Range(topics)
        /\ \A t \in Range(topics) :
            /\ DOMAIN group_offsets[t] = Reported(zk_offsets, t) \cup Reported(kafka_offsets, t)
            /\ \A p \in DOMAIN group_offsets[t] :
                /\ p \in Reported(zk_offsets, t) /\ p \in Reported(kafka_offsets, t)
                     => /\ group_offsets[t][p] \in {zk_offsets[t][p], kafka_offsets[t][p]}
                        /\ group_offsets[t][p] >= zk_offsets[t][p]
                        /\ group_offsets[t][p] >= kafka_offsets[t][p]
                /\ p \in Reported(zk_offsets, t) /\ p \notin Reported(kafka_offsets, t)
                     => group_offsets[t][p] = zk_offsets[t][p]
                /\ p \notin Reported(zk_offsets, t) /\ p \in Reported(kafka_offsets, t)
                     => group_offsets[t][p] = kafka_offsets[t][p]

\* C1 witness: a dual merge in which zookeeper is behind kafka on one
\* partition and another partition is reported by zookeeper alone.
C1_Witness ==
    /\ pc = "dual_merged"
    /\ \E t \in Range(topics) : \E p, q \in DOMAIN group_offsets[t] :
        /\ p \in Reported(zk_offsets, t) /\ p \in Reported(kafka_offsets, t)
        /\ zk_offsets[t][p] < kafka_offsets[t][p]
        /\ group_offsets[t][p] = kafka_offsets[t][p]
        /\ q \in Reported(zk_offsets, t) /\ q \notin Reported(kafka_offsets, t)

Last(s) == s[Len(s)]

\* C6: in each entry point that refreshes metadata the refresh is invoked
\* once; a second time if and only if the first invocation failed with
\* KafkaUnavailableError; never a third time; a failure of the second
\* invocation propagates, and a first failure of another kind propagates
\* without a retry.
C6_SingleRetryOnUnavailable ==
    entry \in RefreshingEntries =>
        /\ Len(loadLog) <= 2
        /\ pc = "start" <=> loadLog = << >>
        /\ pc = "retry" => loadLog = <<"KafkaUnavailableError">>
        /\ pc \notin {"start", "retry"} =>
              (Len(loadLog) = 2 <=> loadLog[1] = "KafkaUnavailableError")
        /\ Len(loadLog) = 2 /\ loadLog[2] # "ok" =>
              pc = "done" /\ outcome = Raised(loadLog[2], "")
        /\ Len(loadLog) >= 1 /\ loadLog[1] \notin {"ok", "KafkaUnavailableError"} =>
              Len(loadLog) = 1 /\ pc = "done" /\ outcome = Raised(loadLog[1], "")
        /\ pc \notin {"start", "retry", "done"} => Last(loadLog) = "ok"

\* C6 witness: a watermark lookup whose refresh failed twice with the
\* transient condition, the second failure reaching the caller.
C6_Witness ==
    /\ entry = "get_watermark_for_regex"
    /\ loadLog = <<"KafkaUnavailableError", "KafkaUnavailableError">>
    /\ outcome = Raised("KafkaUnavailableError", "")

\* C7: get_current_offsets with a storage mode other than zookeeper, kafka
\* or dual raises InvalidOffsetStorageError carrying the mode, without any
\* call of the offset fetch (or of any collaborator after it was entered),
\* and the raise ends the call.
C7_InvalidStorageRaisesBeforeFetch ==
    entry \in OffsetEntries /\ offset_storage \notin {"zookeeper", "kafka", "dual"} =>
        /\ fetchLog = << >> /\ wmLog = << >>
        /\ pc \in {"start", "retry", "offsets", "done"}
        /\ entry = "get_current_offsets" => loadLog = << >>
        /\ pc = "done" /\ (loadLog = << >> \/ Last(loadLog) = "ok") =>
              outcome = Raised("InvalidOffsetStorageError", offset_storage)

\* C7 witness: a direct call with an unknown mode has raised.
C7_Witness ==
    /\ entry = "get_current_offsets"
    /\ offset_storage = "bogus"
    /\ topics # << >>
    /\ pc = "done"
    /\ outcome = Raised("InvalidOffsetStorageError", "bogus")

\* What merging the zookeeper response alone gives.
ZkAlone == [t \in Range(topics) |-> IF t \in DOMAIN zk_offsets THEN zk_offsets[t] ELSE EmptyDict]

\* C8: the only offset-fetch failure get_current_offsets absorbs is
\* GroupCoordinatorNotAvailableError of the kafka fetch in dual mode, and then
\* the result is the merge of the zookeeper response alone; every other
\* failure of a fetch ends the call with that exception: any failure of the
\* zookeeper fetch (the kafka fetch is then not attempted), any other failure
\* of the kafka fetch, and any failure in the single modes.
C8_OnlyKafkaCoordinatorAbsorbed ==
    \A i \in DOMAIN fetchLog :
        fetchLog[i].exc # "" =>
            IF /\ offset_storage = "dual"
               /\ fetchLog[i].offset_storage = "kafka"
               /\ fetchLog[i].exc = "GroupCoordinatorNotAvailableError"
            THEN /\ i = 2 /\ Len(fetchLog) = 2
                 /\ pc # "dual_kafka"
                 /\ outcome.exc # "GroupCoordinatorNotAvailableError"
                 /\ pc = "dual_merged" =>
                       /\ kafka_offsets = EmptyDict
                       /\ group_offsets = ZkAlone
                       /\ outcome = Running
            ELSE /\ i = Len(fetchLog)
                 /\ pc = "done"
                 /\ outcome = Raised(fetchLog[i].exc, "")
                 /\ wmLog = << >>
                 /\ fetchLog[i].offset_storage = "zookeeper" /\ offset_storage = "dual" => i = 1

\* C8 witness: in dual mode the kafka fetch failed with the coordinator
\* condition and the merged result carries the offset zookeeper returned.
C8_Witness ==
    /\ pc = "dual_merged"
    /\ Len(fetchLog) = 2
    /\ fetchLog[2].exc = "GroupCoordinatorNotAvailableError"
    /\ \E t \in DOMAIN zk_offsets : \E p \in DOMAIN zk_offsets[t] :
          zk_offsets[t][p] = 1 /\ group_offsets[t][p] = 1

\* get_current_offsets has returned a value.
OffsetsReturned ==
    /\ entry \in OffsetEntries
    /\ \/ pc \in {"dual_merged", "watermarks", "assemble"}
       \/ pc = "done" /\ entry = "get_current_offsets" /\ outcome = Returned
       \/ pc = "done" /\ wmLog # << >>

\* C9 (as stated): in every storage mode a missing topic is controlled by
\* raise_on_error: with the flag set get_current_offsets does not return but
\* raises, and with the flag clear the missing topic is no key of the result.
C9_MissingTopicFollowsFlagInEveryMode ==
    OffsetsReturned /\ MissingTopics(topics) # {} =>
        /\ ~raise_on_error
        /\ \A t \in MissingTopics(topics) : t \notin DOMAIN group_offsets

\* C9 (amended): in the single modes zookeeper and kafka the caller's
\* raise_on_error is handed to the fetch unchanged, so with the flag set a
\* missing topic ends the call with the fetch's exception and with the flag
\* clear the missing topic is no key of the result; in dual mode both fetches
\* are made with raise_on_error False whatever the caller passed, a missing
\* topic never raises the not-found condition out of get_current_offsets, and
\* every requested topic is a key of the result, a missing one mapping to the
\* empty dict.
C9_MissingTopicFollowsFlagInSingleModes ==
    entry \in OffsetEntries =>
        /\ offset_storage \in {"zookeeper", "kafka"} =>
            /\ \A i \in DOMAIN fetchLog : fetchLog[i].raise_on_error = raise_on_error
            /\ OffsetsReturned /\ MissingTopics(topics) # {} =>
                /\ ~raise_on_error
                /\ \A t \in MissingTopics(topics) : t \notin DOMAIN group_offsets
            /\ fetchLog # << >> /\ raise_on_error /\ MissingTopics(topics) # {} =>
                /\ pc = "done"
                /\ fetchLog[1].exc # ""
                /\ outcome = Raised(fetchLog[1].exc, "")
        /\ offset_storage = "dual" =>
            /\ \A i \in DOMAIN fetchLog : fetchLog[i].raise_on_error = FALSE
            /\ wmLog = << >> => outcome.exc # "UnknownTopicOrPartitionError"
            /\ OffsetsReturned =>
                /\ DOMAIN group_offsets = Range(topics)
                /\ \A t \in MissingTopics(topics) : group_offsets[t] = EmptyDict

\* C9 witness: a dual-mode call with raise_on_error set returned although a
\* requested topic does not exist, the topic mapping to the empty dict.
C9_Witness ==
    /\ entry = "get_current_offsets"
    /\ offset_storage = "dual"
    /\ raise_on_error
    /\ pc = "done" /\ outcome = Returned
    /\ \E t \in MissingTopics(topics) : group_offsets[t] = EmptyDict
    /\ \E t \in Range(topics) : group_offsets[t] # EmptyDict

\* The refresh, the offset reconciliation and the watermark fetch succeeded.
AllFetchesSucceeded ==
    /\ entry = "get_consumer_offsets_metadata"
    /\ pc = "done"
    /\ wmLog # << >> /\ Last(wmLog).exc = ""

HasWatermark(t, p) == t \in DOMAIN watermarks /\ p \in DOMAIN watermarks[t]

\* C10: when the refresh, the reconciliation and the watermark fetch succeed,
\* either some partition of the reconciled offsets has no watermark entry and
\* the call fails with KeyError returning nothing, or the call returns a dict
\* whose keys are the topics of the reconciled offsets and whose list for a
\* topic holds one snapshot per partition of the reconciled offsets and no
\* other, with current the reconciled offset and highmark and lowmark the
\* watermark entry of the same topic and partition; a topic with an empty
\* partition dict gets the empty list, with or without a watermark entry.
C10_OneSnapshotPerReconciledPartition ==
    AllFetchesSucceeded =>
        IF \E t \in DOMAIN group_offsets : \E p \in DOMAIN group_offsets[t] : ~HasWatermark(t, p)
        THEN outcome = Raised("KeyError", "") /\ result = EmptyDict
        ELSE /\ outcome = Returned
             /\ DOMAIN result = DOMAIN group_offsets
             /\ \A t \in DOMAIN result :
                 /\ Len(result[t]) = Cardinality(DOMAIN group_offsets[t])
                 /\ {result[t][i].partition : i \in DOMAIN result[t]} = DOMAIN group_offsets[t]
                 /\ \A i \in DOMAIN result[t] :
                     LET snap == result[t][i]
                     IN /\ snap.topic = t
                        /\ snap.current = group_offsets[t][snap.partition]
                        /\ snap.highmark = watermarks[t][snap.partition].highmark
                        /\ snap.lowmark = watermarks[t][snap.partition].lowmark

\* C10 witness: a call returned snapshots for a topic with two partitions of
\* different watermarks, and an empty list for a topic that has no watermark
\* entry at all.
C10_Witness ==
    /\ AllFetchesSucceeded
    /\ outcome = Returned
    /\ \E t \in DOMAIN result :
          /\ Len(result[t]) = 2
          /\ result[t][1].highmark # result[t][2].highmark
          /\ result[t][1].current # result[t][2].current
    /\ \E t \in DOMAIN result : result[t] = << >> /\ t \notin DOMAIN watermarks

\* C10 second case reached: a reconciled partition without a watermark entry
\* made the call fail.
C10_KeyErrorReached ==
    /\ AllFetchesSucceeded
    /\ outcome = Raised("KeyError", "")

====
